---------------------------- MODULE Spec2Model ----------------------------
(***************************************************************************)
(* Model of the autofocus loop of src/Autofocus.py (autofocus_demo) and    *)
(* of the lens driver set_focus.  One loop iteration ("tick") is split at  *)
(* the keyboard poll: the part from cap.read() to the end of the           *)
(* if/elif block is one action, cv2.waitKey and its handling is another.   *)
(***************************************************************************)
EXTENDS Integers, Sequences, FiniteSets

\* ------------------------------------------------------------ constants
MAX_STEP           == 1023     \* set_focus: highest valid lens position
UPPER_SAFETY_BOUND == 1020     \* the sweep stops when step reaches it
DECLINE_THRESHOLD  == 6        \* consecutive declining frames that end it
STEP_SIZE          == 10       \* step += 10
INIT_STEP          == 10       \* step = 10, max_step = 10

\* ------------------------------------------------------------ bounds
\* Two cameras are explored.  The coarse one reports sharpness in
\* 0..CoarseScore and never runs out of frames (full sweeps to the safety
\* bound); the fine one reports sharpness in 0..MaxScore and its stream
\* ends after MaxFrames frames (every ordering of scores in short runs).
CoarseScore == 1
MaxScore    == 8
MaxFrames   == 9
\* set_focus alone is explored for every argument from DriverMargin below 0
\* to DriverMargin above MAX_STEP.
DriverMargin == 8

Endless == 0 - 1

VARIABLES
    \* the locals of autofocus_demo
    max_step, max_metric, last_metric, dec_frames, step, finished,
    \* where the loop is: "tick" (top of the loop), "poll" (at waitKey),
    \* "done" (left the loop, resources released), "crashed" (an exception
    \* left autofocus_demo)
    pc,
    released,     \* cap.release() and destroyAllWindows() have run
    message,      \* what the last completed loop part printed
    \* the environment
    hi,           \* the camera reports sharpness in 0..hi
    left,         \* frames the stream still holds (Endless: no limit)
    lensPos,      \* <<p>>: the lens is where the last successful write put
                  \* it; << >>: never written, position unknown
    \* what the last tick did
    cmds,         \* the steps passed to set_focus in the tick, in order
    frameLens,    \* lensPos when the frame of the tick was captured
    scored,       \* the tick ran focus_metric on its frame
    key,          \* the event the last poll returned
    \* the current search session (since start or the last restart)
    commits,      \* steps the elif branch passed to set_focus
    notes,        \* steps announced by the "Autofokus ustawiony" message
    prev,         \* score of the previous processed sample (0 if none)
    sdec,         \* the processed samples are strictly decreasing
    same,         \* the processed samples are all equal
    scn,          \* how much of Scenario the processed samples match
    watch,        \* one score value, fixed for the run, whose samples are
                  \* followed through each session
    wFirst,       \* step of the first sample that scored watch (0: none)
    above,        \* a sample scored more than watch
    runLT,        \* length of the run of most recent samples each lower
                  \* than the sample before it (counted up to RunCap)
    \* the last call of set_focus
    arg,          \* its argument
    raised,       \* "none", "ValueError" or "CalledProcessError"
    wire          \* the << data1, data2 >> pairs it handed to i2cset

vars == << max_step, max_metric, last_metric, dec_frames, step, finished,
           pc, released, message, hi, left, lensPos, cmds, frameLens,
           scored, key, commits, notes, prev, sdec, same, scn,
           watch, wFirst, above, runLT, arg, raised, wire >>

search  == << max_step, max_metric, last_metric, dec_frames, step >>
session == << commits, notes, prev, sdec, same, scn, wFirst, above,
             runLT >>
env     == << hi, watch >>
drv     == << arg, raised, wire >>

\* ------------------------------------------------------------ helpers
Scores == 0 .. hi

\* the scenario of the specification's section 8
Scenario == << 5, 8, 3, 2, 1, 0, 0 >>
OffScript == Len(Scenario) + 1

\* runs are counted up to one more than the threshold
RunCap == DECLINE_THRESHOLD + 1
Longer(run) == IF run < RunCap THEN run + 1 ELSE RunCap

\* number of samples processed in the session
Samples == (step - INIT_STEP) \div STEP_SIZE

InRangeExclusive(s) == 0 <= s /\ s < MAX_STEP

\* set_focus, line 16: the range check
InRange(s) == 0 <= s /\ s <= MAX_STEP

\* Python's & on non-negative integers, bit by bit
RECURSIVE BitAnd(_, _)
BitAnd(a, b) ==
    IF a = 0 \/ b = 0 THEN 0
    ELSE (a % 2) * (b % 2) + 2 * BitAnd(a \div 2, b \div 2)

\* Python's << and >> on non-negative integers
ShiftLeft(a, n) == a * 2 ^ n
ShiftRight(a, n) == a \div 2 ^ n

ValueNarrowMask(s) == BitAnd(ShiftLeft(s, 4), 4080)

\* set_focus, line 19: (step << 4) & 0x3FF0
Value(s) == BitAnd(ShiftLeft(s, 4), 16368)

\* set_focus, line 20: (value >> 8) & 0x3F
Data1(s) == BitAnd(ShiftRight(Value(s), 8), 63)

Data2LowNibble(s) == BitAnd(Value(s), 15)

\* set_focus, line 21: value & 0xF0
Data2(s) == BitAnd(Value(s), 240)

\* set_focus, lines 23-26: the two bytes on the i2cset command line
Bytes(s) == << Data1(s), Data2(s) >>

SearchGuardOneMore ==
    dec_frames <= DECLINE_THRESHOLD /\ step < UPPER_SAFETY_BOUND

SearchGuardLate ==
    dec_frames < DECLINE_THRESHOLD /\ step <= UPPER_SAFETY_BOUND

\* line 77: the search branch runs
SearchGuard == dec_frames < DECLINE_THRESHOLD /\ step < UPPER_SAFETY_BOUND

CommitGuardAlways == TRUE

\* line 94: the commit branch runs when the search branch does not
CommitGuard == ~finished

BetterOrEqual(sharp, best) == sharp >= best

\* line 86
Better(sharp, best) == sharp > best

DeclinedOrEqual(sharp, last) == sharp <= last

\* line 90
Declined(sharp, last) == sharp < last

NextStepOffByOne(s) == s + STEP_SIZE + 1

\* line 92
NextStep(s) == s + STEP_SIZE

\* cap.read() returned a frame: one frame less in a finite stream
Consume == IF left = Endless THEN Endless ELSE left - 1

\* ------------------------------------------------------------ initial state
InitSearch ==
    /\ max_step = INIT_STEP
    /\ max_metric = 0
    /\ last_metric = 0
    /\ dec_frames = 0
    /\ step = INIT_STEP
    /\ finished = FALSE

InitSession ==
    /\ commits = << >>
    /\ notes = << >>
    /\ prev = 0
    /\ sdec = TRUE
    /\ same = TRUE
    /\ scn = 0
    /\ wFirst = 0
    /\ above = FALSE
    /\ runLT = 0

InitLoop ==
    /\ InitSearch
    /\ InitSession
    /\ pc = "tick"
    /\ released = FALSE
    /\ message = "pipeline"
    /\ lensPos = << >>
    /\ cmds = << >>
    /\ frameLens = << >>
    /\ scored = FALSE
    /\ key = "none"
    /\ arg = 0
    /\ raised = "none"
    /\ wire = << >>

\* either camera, no score value followed
Init ==
    /\ InitLoop
    /\ \/ hi = CoarseScore /\ left = Endless
       \/ hi = MaxScore /\ left = MaxFrames
    /\ watch = hi + 1

\* the fine camera, any one score value followed
InitWatch ==
    /\ InitLoop
    /\ hi = MaxScore /\ left = MaxFrames
    /\ watch \in Scores

\* ------------------------------------------------------------ leaving the loop
\* lines 113-114
Release ==
    /\ pc' = "done"
    /\ released' = TRUE

\* line 68: the window was closed, the while condition fails
WindowClosed ==
    /\ pc = "tick"
    /\ cmds' = << >>
    /\ scored' = FALSE
    /\ Release
    /\ UNCHANGED << search, finished, session, env, left, lensPos,
                    frameLens, key, message, drv >>

FrameFailRetry ==
    /\ pc = "tick"
    /\ message' = "no frame"
    /\ cmds' = << >>
    /\ scored' = FALSE
    /\ UNCHANGED << pc, released, search, finished, session, env, left,
                    lensPos, frameLens, key, drv >>

\* lines 69-72: cap.read() fails
FrameFail ==
    /\ pc = "tick"
    /\ message' = "no frame"
    /\ cmds' = << >>
    /\ scored' = FALSE
    /\ Release
    /\ UNCHANGED << search, finished, session, env, left, lensPos,
                    frameLens, key, drv >>

\* ------------------------------------------------------------ set_focus in the loop
\* lines 16-17 reached from the loop: ValueError is no CalledProcessError,
\* so neither line 80 nor line 120 catches it and it leaves autofocus_demo
\* before i2cset is run
RangeError ==
    /\ raised' = "ValueError"
    /\ wire' = << >>
    /\ scored' = FALSE
    /\ message' = "traceback"
    /\ pc' = "crashed"
    /\ UNCHANGED << search, finished, released, env, lensPos, key >>

\* ------------------------------------------------------------ the search branch
\* lines 69-92 with set_focus succeeding: the frame was captured by
\* cap.read() (line 69) before set_focus(step) moved the lens (line 79)
SearchTick(sharp) ==
    /\ pc = "tick"
    /\ left # 0
    /\ SearchGuard
    /\ left' = Consume
    /\ frameLens' = lensPos
    /\ cmds' = << step >>
    /\ arg' = step
    /\ IF InRange(step)
       THEN /\ raised' = "none"
            /\ wire' = << Bytes(step) >>
            /\ lensPos' = << step >>
            /\ scored' = TRUE
            /\ IF Better(sharp, max_metric)
               THEN max_metric' = sharp /\ max_step' = step
               ELSE UNCHANGED << max_metric, max_step >>
            /\ dec_frames' =
                   IF Declined(sharp, last_metric) THEN dec_frames + 1 ELSE 0
            /\ last_metric' = sharp
            /\ step' = NextStep(step)
            /\ prev' = sharp
            /\ sdec' = (sdec /\ (Samples = 0 \/ sharp < prev))
            /\ same' = (same /\ (Samples = 0 \/ sharp = prev))
            /\ scn' = IF scn < Len(Scenario) /\ Scenario[scn + 1] = sharp
                      THEN scn + 1 ELSE OffScript
            /\ wFirst' = IF sharp = watch /\ wFirst = 0 THEN step ELSE wFirst
            /\ above' = (above \/ sharp > watch)
            /\ runLT' = IF sharp < prev THEN Longer(runLT) ELSE 0
            /\ pc' = "poll"
            /\ UNCHANGED << finished, released, message, env, key, commits,
                            notes >>
       ELSE RangeError /\ UNCHANGED session

SearchWriteFailAfterStep ==
    /\ pc = "tick"
    /\ left # 0
    /\ SearchGuard
    /\ InRange(step)
    /\ left' = Consume
    /\ frameLens' = lensPos
    /\ cmds' = << step >>
    /\ arg' = step
    /\ raised' = "CalledProcessError"
    /\ wire' = << Bytes(step) >>
    /\ scored' = FALSE
    /\ message' = "i2c error"
    /\ Release
    /\ step' = NextStep(step)
    /\ UNCHANGED << max_step, max_metric, last_metric, dec_frames, finished,
                    session, env, lensPos, key >>

\* lines 78-82: i2cset fails in the search branch
SearchWriteFail ==
    /\ pc = "tick"
    /\ left # 0
    /\ SearchGuard
    /\ InRange(step)
    /\ left' = Consume
    /\ frameLens' = lensPos
    /\ cmds' = << step >>
    /\ arg' = step
    /\ raised' = "CalledProcessError"
    /\ wire' = << Bytes(step) >>
    /\ scored' = FALSE
    /\ message' = "i2c error"
    /\ Release
    /\ UNCHANGED << search, finished, session, env, lensPos, key >>

\* ------------------------------------------------------------ the commit branch
CommitFallThrough ==
    /\ left # 0
    /\ \/ pc = "tick" /\ ~SearchGuard /\ cmds' = << max_step >>
          /\ left' = Consume /\ frameLens' = lensPos
       \/ pc = "poll" /\ scored /\ cmds' = Append(cmds, max_step)
          /\ UNCHANGED << left, frameLens >>
    /\ CommitGuard
    /\ InRange(max_step)
    /\ arg' = max_step
    /\ commits' = Append(commits, max_step)
    /\ raised' = "none"
    /\ wire' = << Bytes(max_step) >>
    /\ lensPos' = << max_step >>
    /\ scored' = FALSE
    /\ finished' = TRUE
    /\ notes' = Append(notes, max_step)
    /\ message' = "autofocus set"
    /\ pc' = "poll"
    /\ UNCHANGED << search, released, env, key, prev, sdec, same, scn,
                    wFirst, above, runLT >>

\* lines 94-98 with set_focus succeeding
Commit ==
    /\ pc = "tick"
    /\ left # 0
    /\ ~SearchGuard
    /\ CommitGuard
    /\ left' = Consume
    /\ frameLens' = lensPos
    /\ cmds' = << max_step >>
    /\ arg' = max_step
    /\ commits' = Append(commits, max_step)
    /\ UNCHANGED << prev, sdec, same, scn, wFirst, above, runLT >>
    /\ IF InRange(max_step)
       THEN /\ raised' = "none"
            /\ wire' = << Bytes(max_step) >>
            /\ lensPos' = << max_step >>
            /\ scored' = FALSE
            /\ finished' = TRUE
            /\ notes' = Append(notes, max_step)
            /\ message' = "autofocus set"
            /\ pc' = "poll"
            /\ UNCHANGED << search, released, env, key >>
       ELSE RangeError /\ UNCHANGED notes

\* line 96: i2cset fails, CalledProcessError is raised outside any try and
\* leaves autofocus_demo (line 120 catches KeyboardInterrupt only)
CommitWriteFail ==
    /\ pc = "tick"
    /\ left # 0
    /\ ~SearchGuard
    /\ CommitGuard
    /\ InRange(max_step)
    /\ left' = Consume
    /\ frameLens' = lensPos
    /\ cmds' = << max_step >>
    /\ arg' = max_step
    /\ raised' = "CalledProcessError"
    /\ wire' = << Bytes(max_step) >>
    /\ scored' = FALSE
    /\ commits' = Append(commits, max_step)
    /\ message' = "traceback"
    /\ pc' = "crashed"
    /\ UNCHANGED << search, finished, released, env, lensPos, key, notes,
                    prev, sdec, same, scn, wFirst, above, runLT >>

\* lines 77, 94: neither branch runs
Idle ==
    /\ pc = "tick"
    /\ left # 0
    /\ ~SearchGuard
    /\ ~CommitGuard
    /\ left' = Consume
    /\ frameLens' = lensPos
    /\ cmds' = << >>
    /\ scored' = FALSE
    /\ pc' = "poll"
    /\ UNCHANGED << search, finished, released, message, session, env,
                    lensPos, key, drv >>

\* ------------------------------------------------------------ the keyboard
\* line 101: no key, or a key the loop ignores
KeyNone ==
    /\ pc = "poll"
    /\ key' = "none"
    /\ pc' = "tick"
    /\ UNCHANGED << search, finished, released, message, session, env, left,
                    lensPos, cmds, frameLens, scored, drv >>

\* lines 102-103
KeyEsc ==
    /\ pc = "poll"
    /\ key' = "esc"
    /\ Release
    /\ UNCHANGED << search, finished, message, session, env, left, lensPos,
                    cmds, frameLens, scored, drv >>

ResetSearchKeepLast ==
    /\ max_step' = INIT_STEP
    /\ max_metric' = 0
    /\ dec_frames' = 0
    /\ step' = INIT_STEP
    /\ finished' = FALSE
    /\ UNCHANGED last_metric

\* lines 105-110
ResetSearch ==
    /\ max_step' = INIT_STEP
    /\ max_metric' = 0
    /\ last_metric' = 0
    /\ dec_frames' = 0
    /\ step' = INIT_STEP
    /\ finished' = FALSE

\* lines 104-111
KeyReset ==
    /\ pc = "poll"
    /\ key' = "reset"
    /\ ResetSearch
    /\ commits' = << >>
    /\ notes' = << >>
    /\ prev' = 0
    /\ sdec' = TRUE
    /\ same' = TRUE
    /\ scn' = 0
    /\ wFirst' = 0
    /\ above' = FALSE
    /\ runLT' = 0
    /\ message' = "restart"
    /\ pc' = "tick"
    /\ UNCHANGED << released, env, left, lensPos, cmds, frameLens, scored,
                    drv >>

\* ------------------------------------------------------------ set_focus alone
\* the arguments set_focus is called with when explored on its own
DriverArgs == (0 - DriverMargin) .. (MAX_STEP + DriverMargin)

\* one call of set_focus(arg), nothing written before it
InitDriver ==
    /\ InitSearch
    /\ InitSession
    /\ pc = "call"
    /\ released = FALSE
    /\ message = "none"
    /\ lensPos = << >>
    /\ cmds = << >>
    /\ frameLens = << >>
    /\ scored = FALSE
    /\ key = "none"
    /\ hi = 0
    /\ left = 0
    /\ watch = 0
    /\ arg \in DriverArgs
    /\ raised = "none"
    /\ wire = << >>

\* lines 16-17: the argument is refused before i2cset is run
SetFocusRejected ==
    /\ pc = "call"
    /\ ~InRange(arg)
    /\ raised' = "ValueError"
    /\ pc' = "returned"
    /\ UNCHANGED << search, finished, released, message, session, env, left,
                    lensPos, cmds, frameLens, scored, key, arg, wire >>

\* lines 19-26: i2cset runs and exits with 0
SetFocusWritten ==
    /\ pc = "call"
    /\ InRange(arg)
    /\ wire' = Append(wire, Bytes(arg))
    /\ lensPos' = << arg >>
    /\ raised' = "none"
    /\ pc' = "returned"
    /\ UNCHANGED << search, finished, released, message, session, env, left,
                    cmds, frameLens, scored, key, arg >>

\* lines 19-26: i2cset runs and exits with another status (check=True)
SetFocusTransportFail ==
    /\ pc = "call"
    /\ InRange(arg)
    /\ wire' = Append(wire, Bytes(arg))
    /\ raised' = "CalledProcessError"
    /\ pc' = "returned"
    /\ UNCHANGED << search, finished, released, message, session, env, left,
                    lensPos, cmds, frameLens, scored, key, arg >>

NextDriver ==
    \/ SetFocusRejected
    \/ SetFocusWritten
    \/ SetFocusTransportFail

\* ------------------------------------------------------------ specification
Next ==
    \/ WindowClosed
    \/ FrameFail
    \/ \E sharp \in Scores : SearchTick(sharp)
    \/ SearchWriteFail
    \/ Commit
    \/ CommitWriteFail
    \/ Idle
    \/ KeyNone
    \/ KeyEsc
    \/ KeyReset

Spec == Init /\ [][Next]_vars

SpecWatch == InitWatch /\ [][Next]_vars

SpecDriver == InitDriver /\ [][NextDriver]_vars

\* the loop is the only thread and neither cap.read() nor cv2.waitKey(16)
\* blocks for ever: while it can take a step it takes one
SpecFair == Init /\ [][Next]_vars /\ WF_vars(Next)

\* ------------------------------------------------------------ claims
\* C1: in every state of a session, if the followed score value has been
\* processed and no higher score has, then it is the maximum processed so
\* far: max_metric equals it and max_step is the step of the tick that
\* processed it FIRST (later equal scores change nothing); with no sample
\* processed max_metric is 0.  Holding for every followed value, this is
\* "best_score is the maximum and best_step its first occurrence".
C1_BestIsFirstMax ==
    /\ (Samples = 0 => max_metric = 0 /\ max_step = INIT_STEP)
    /\ (wFirst # 0 /\ ~above) => (max_metric = watch /\ max_step = wFirst)

\* the maximum was processed a second time, after at least one other tick
C1_Witness ==
    /\ wFirst # 0 /\ ~above /\ watch > 0
    /\ prev = watch
    /\ wFirst + STEP_SIZE < step - STEP_SIZE
    /\ max_step = wFirst

\* C2 as stated: once a strictly decreasing sequence of 6 or more samples
\* has been processed from the initial state, the decline threshold is met
\* (the controller converges).
C2_Original ==
    (sdec /\ Samples >= 6) => (dec_frames >= DECLINE_THRESHOLD \/ finished)

\* C2 amended: while the samples of a session are strictly decreasing,
\* dec_frames is the number of samples after the first; the controller
\* keeps searching before the 7th sample, has met the threshold at the 7th
\* (6 declines), never processes an 8th, has converged once a tick without
\* scoring has completed after the 7th, and max_step is the first step.
C2_SevenSamples ==
    (sdec /\ Samples >= 1) =>
        /\ dec_frames = Samples - 1
        /\ max_step = INIT_STEP
        /\ Samples <= DECLINE_THRESHOLD + 1
        /\ (Samples <= DECLINE_THRESHOLD => SearchGuard /\ ~finished)
        /\ (Samples = DECLINE_THRESHOLD + 1 => ~SearchGuard)
        /\ (Samples = DECLINE_THRESHOLD + 1 /\ pc = "poll" /\ ~scored
                => finished)

C2_Witness ==
    sdec /\ Samples = DECLINE_THRESHOLD + 1 /\ finished /\ max_metric > 0

\* C3 as stated: after the scores 5, 8, 3, 2, 1, 0, 0 at steps 10..70
\* dec_frames is 6 (the controller converges next), max_step = 20 and
\* max_metric = 8.
C3_Original ==
    scn = Len(Scenario) =>
        /\ dec_frames = DECLINE_THRESHOLD
        /\ max_step = 20
        /\ max_metric = 8

\* C3 amended: the samples of the scenario are commanded at steps 10..70;
\* dec_frames is 4 after the tick for step 60 and back to 0 after the tick
\* for step 70 (0 is not lower than 0), so the controller has not converged
\* and keeps searching; max_step = 20 and max_metric = 8.
C3_Scenario ==
    /\ (scn <= Len(Scenario) => step = INIT_STEP + scn * STEP_SIZE)
    /\ (scn = Len(Scenario) - 1 => dec_frames = 4)
    /\ (scn = Len(Scenario) =>
            /\ dec_frames = 0
            /\ max_step = 20
            /\ max_metric = 8
            /\ SearchGuard
            /\ ~finished)

C3_Witness ==
    scn = Len(Scenario) /\ pc = "poll" /\ cmds = << 70 >>

\* C4: while every sample of a session has the same score, dec_frames stays
\* 0 and the controller is searching as long as step < 1020; it is
\* converged only with step = 1020, a completed tick at step = 1020 has
\* converged, and no step above 1020 is ever passed to set_focus.
C4_ConstantSweep ==
    same =>
        /\ dec_frames = 0
        /\ step <= UPPER_SAFETY_BOUND
        /\ (step < UPPER_SAFETY_BOUND => SearchGuard /\ ~finished)
        /\ (finished => step = UPPER_SAFETY_BOUND)
        /\ (step = UPPER_SAFETY_BOUND /\ pc = "poll" /\ ~scored => finished)
        /\ \A i \in 1 .. Len(cmds) : cmds[i] <= UPPER_SAFETY_BOUND

C4_Witness ==
    same /\ finished /\ step = UPPER_SAFETY_BOUND /\ prev > 0

\* C5: once finished is True, every step of the loop other than a restart
\* leaves max_step, max_metric, last_metric, dec_frames and step as they
\* are, keeps finished True, does not move the lens, and a tick passes no
\* step to set_focus.
C5_ConvergedIsStable ==
    [][ (finished /\ ~(pc = "poll" /\ key' = "reset")) =>
            /\ search' = search
            /\ finished'
            /\ lensPos' = lensPos
            /\ (pc = "tick" => cmds' = << >>) ]_vars

\* a tick has run, and done nothing, while converged away from the start
C5_Witness ==
    finished /\ pc = "poll" /\ cmds = << >> /\ max_step > INIT_STEP

\* C6: in a session the elif branch passes at most one step to set_focus;
\* when finished is True it has passed exactly one, the current max_step,
\* and announced exactly once, that same step; before that nothing is
\* announced; and finished stays True until a restart.
C6_CommitOnce ==
    /\ [](/\ Len(commits) <= 1
          /\ (finished => commits = << max_step >> /\ notes = << max_step >>)
          /\ (~finished => notes = << >>)
          /\ (~finished /\ pc # "crashed" => commits = << >>))
    /\ [][ (finished /\ ~finished') => (pc = "poll" /\ key' = "reset") ]_vars

\* converged on a step found during the sweep, one write, one announcement
C6_Witness ==
    /\ finished /\ commits = << max_step >> /\ notes = << max_step >>
    /\ max_step > INIT_STEP /\ message = "autofocus set"

\* C7: right after a restart event the six locals have their values of
\* lines 61-66: step = 10, max_step = 10, max_metric = 0, last_metric = 0,
\* dec_frames = 0, finished = False.
C7_ResetIsInitial ==
    (key = "reset" /\ pc = "tick") => InitSearch

\* a restart taken from the converged state, after an idle tick
C7_Witness ==
    key = "reset" /\ pc = "tick" /\ cmds = << >> /\ lensPos # << >>

\* C8 as stated: the frame a search tick scores was captured while the lens
\* was at the step the tick commanded.
C8_FrameAfterCommand ==
    (scored /\ pc = "poll") => frameLens = cmds

\* C9 as stated: after a failed actuator write, of the sweep or of the
\* commit, the loop has stopped through its own handler and released the
\* frame source and the display; no failure leaves autofocus_demo.
C9_WriteFailureHandled ==
    /\ pc # "crashed"
    /\ (message \in {"i2c error", "traceback"} => pc = "done" /\ released)

\* C10: a tick whose cap.read() fails ends the loop in that tick: it
\* releases the frame source and the display, passes no step to set_focus,
\* does not move the lens and changes none of the six locals.
C10_FrameFailureEndsLoop ==
    [][ (pc = "tick" /\ message' = "no frame") =>
            /\ pc' = "done"
            /\ released'
            /\ cmds' = << >>
            /\ lensPos' = lensPos
            /\ search' = search
            /\ finished' = finished ]_vars

\* the frame source failed in mid sweep
C10_Witness ==
    message = "no frame" /\ pc = "done" /\ released /\ step > INIT_STEP

\* C11: a call of set_focus raises the out-of-range error exactly when its
\* argument is below 0 or above 1023, and then nothing was handed to
\* i2cset.
C11_RangeEnforced ==
    pc = "returned" =>
        /\ (raised = "ValueError") <=> (arg < 0 \/ arg > 1023)
        /\ (raised = "ValueError" => wire = << >>)
        /\ (raised # "ValueError" => Len(wire) = 1)

\* the first step above the range was refused and nothing was written
C11_Witness ==
    pc = "returned" /\ raised = "ValueError" /\ arg = 1024 /\ wire = << >>

\* C12 as stated: step 0 gives the bytes (0, 0), step 63 gives value 1008
\* and the bytes (3, 48), step 1023 gives two bytes in 0..255.
C12_Original ==
    (pc = "returned" /\ raised # "ValueError") =>
        /\ (arg = 0 => wire = << << 0, 0 >> >>)
        /\ (arg = 63 => Value(arg) = 1008 /\ wire = << << 3, 48 >> >>)
        /\ (arg = 1023 => wire[1][1] \in 0 .. 255 /\ wire[1][2] \in 0 .. 255)

\* C12 amended: step 0 gives the bytes (0, 0); step 63 gives value 1008
\* and the bytes (3, 240); step 1023 gives the bytes (63, 240), both in
\* 0..255.
C12_Encoding ==
    (pc = "returned" /\ raised # "ValueError") =>
        /\ (arg = 0 => wire = << << 0, 0 >> >>)
        /\ (arg = 63 => Value(arg) = 1008 /\ wire = << << 3, 240 >> >>)
        /\ (arg = 1023 =>
                /\ wire = << << 63, 240 >> >>
                /\ wire[1][1] \in 0 .. 255 /\ wire[1][2] \in 0 .. 255)

C12_Witness ==
    pc = "returned" /\ arg = 63 /\ wire = << << 3, 240 >> >>

\* C18: for every valid step, value is 16 * step (no bit is lost), the
\* high byte is step div 16 and lies in 0..63, the low byte is
\* 16 * (step mod 16) and lies in 0..240, and the step is recovered from
\* the two bytes, so different steps never give the same pair.
C18_EncodingLossless ==
    (pc = "returned" /\ raised # "ValueError") =>
        /\ Value(arg) = 16 * arg
        /\ wire[1][1] = arg \div 16 /\ wire[1][1] \in 0 .. 63
        /\ wire[1][2] = 16 * (arg % 16) /\ wire[1][2] \in 0 .. 240
        /\ 16 * wire[1][1] + wire[1][2] \div 16 = arg

C18_Witness ==
    pc = "returned" /\ raised = "none" /\ arg = MAX_STEP /\ wire[1][1] = 63

\* C13 as stated: dec_frames is the number of most recent consecutive
\* samples whose score did not exceed the score of the sample before it
\* (the first compared with 0), so a sample equal to its predecessor
\* increases it.
\* Stated for sessions whose samples are all equal, where that number is
\* known: every sample (all but the first, if the score is above 0).
C13_Original ==
    (same /\ Samples >= 1) =>
        dec_frames = IF prev = 0 THEN Samples ELSE Samples - 1

\* C13 amended: dec_frames is the number of most recent consecutive samples
\* whose score was strictly lower than the score of the sample before it
\* (the first compared with 0); a sample equal to its predecessor sets it
\* back to 0.
C13_StrictRun ==
    /\ dec_frames = runLT
    /\ (Samples >= 2 /\ same => dec_frames = 0)

\* three declines in a row after at least two other samples
C13_Witness ==
    runLT = 3 /\ dec_frames = 3 /\ Samples > 4 /\ prev > 0

\* C17: a completed tick ran the search branch exactly when dec_frames < 6
\* and step < 1020 held at its start; the controller is converged with
\* step < 1020 only after 6 samples in a row each strictly lower than the
\* one before; and a sample that is not strictly lower than the one before
\* leaves dec_frames at 0.
C17_SearchBranchRule ==
    /\ []((finished /\ step < 1020) => runLT = 6)
    /\ [][ /\ (pc = "tick" /\ pc' = "poll") =>
                (scored' <=> (dec_frames < 6 /\ step < 1020))
           /\ (pc = "tick" /\ pc' = "poll" /\ scored' /\ prev' >= prev) =>
                dec_frames' = 0 ]_vars

\* converged before the safety bound, by six declines in a row after a rise
C17_Witness ==
    finished /\ step < 1020 /\ runLT = 6 /\ max_step > INIT_STEP

\* C14: a session processes at most 101 samples (steps 10, 20, ..., 1010),
\* a completed tick that processed none has converged (so the commit is
\* the 102nd tick at the latest), and unless restarts, a quit or a failure
\* keep arriving the controller does reach finished = True.
C14_ConvergesInTime ==
    /\ [](/\ Samples <= 101
          /\ (scored /\ pc = "poll" => cmds[1] \in 10 .. 1010)
          /\ (pc = "poll" /\ ~scored => finished))
    /\ []<>(finished \/ pc \in {"done", "crashed"} \/ key = "reset")

\* the longest session: 101 samples and the commit in the 102nd tick
C14_Witness ==
    Samples = 101 /\ finished /\ pc = "poll" /\ cmds = << max_step >>

\* C15: while every sample of a session scored 0, max_step stays 10 and
\* max_metric 0, dec_frames stays below 6, the controller is converged only
\* with step = 1020, a completed tick at step = 1020 has converged, and the
\* commit writes step 10.
C15_AllZero ==
    (same /\ prev = 0 /\ Samples >= 1) =>
        /\ max_step = INIT_STEP /\ max_metric = 0
        /\ dec_frames < 6
        /\ (step < 1020 => ~finished)
        /\ (step = 1020 /\ pc = "poll" /\ ~scored => finished)
        /\ (finished => commits = << 10 >> /\ lensPos = << 10 >>)

C15_Witness ==
    same /\ prev = 0 /\ step = 1020 /\ finished /\ commits = << 10 >>

\* C16: no tick passes more than one step to set_focus; a step of the loop
\* that reads a frame never follows another without a poll in between; the
\* poll (and with it a quit or a restart) writes nothing and moves no lens;
\* and the key event changes only at the poll, a tick changes step only by
\* adding 10, so a quit or restart never falls between the start and the
\* end of a write.
C16_WritesSerialized ==
    /\ [](Len(cmds) <= 1 /\ Len(wire) <= 1)
    /\ [][ /\ (pc = "poll" => UNCHANGED << cmds, wire, lensPos, left >>)
           /\ (pc = "tick" => (key' = key /\ pc' # "tick"))
           /\ (pc = "tick" /\ step' # step => step' = step + STEP_SIZE)
           /\ (key' # key => pc = "poll") ]_vars

\* a quit honoured at the poll that follows a completed write
C16_Witness ==
    pc = "done" /\ key = "esc" /\ scored /\ lensPos = cmds /\ raised = "none"

\* C19: every step the loop passes to set_focus is a multiple of 10 in
\* 10..1010, a committed step is below step (it was commanded earlier in
\* the session), step stays a multiple of 10 in 10..1020, dec_frames stays
\* in 0..6, and set_focus never raises the out-of-range error.
C19_CommandsInRange ==
    /\ \A i \in 1 .. Len(cmds) :
          cmds[i] % 10 = 0 /\ cmds[i] >= 10 /\ cmds[i] <= 1010
    /\ \A i \in 1 .. Len(commits) :
          commits[i] % 10 = 0 /\ commits[i] >= 10 /\ commits[i] < step
    /\ step % 10 = 0 /\ step >= 10 /\ step <= 1020
    /\ dec_frames >= 0 /\ dec_frames <= 6
    /\ raised # "ValueError"

\* the last step of a full sweep was commanded
C19_Witness ==
    pc = "poll" /\ scored /\ cmds = << 1010 >> /\ wire = << << 63, 32 >> >>

\* C20: a search tick whose write fails leaves max_step, max_metric,
\* last_metric, dec_frames, step and finished as they were and does not
\* score its frame.
C20_FailedWriteKeepsState ==
    [][ (pc = "tick" /\ message' = "i2c error") =>
            /\ search' = search
            /\ finished' = finished
            /\ session' = session
            /\ ~scored' ]_vars

\* the write failed in mid sweep
C20_Witness ==
    /\ message = "i2c error" /\ raised = "CalledProcessError"
    /\ step > INIT_STEP /\ cmds = << step >> /\ ~scored

=============================================================================
